---- MODULE Spec2Model ----
(***************************************************************************)
(* DuetLapse.py: the capture-trigger state machine and the pause/resume    *)
(* coordination of the time-lapse script, statement by statement.          *)
(*                                                                         *)
(* The program is one thread (the main loop, lines 391-415) plus the       *)
(* SIGINT handler quit_gracefully (lines 383-389), which Python runs       *)
(* between two bytecodes of the main thread: the model gives the main      *)
(* thread a program counter pc, one action per statement (or per run of    *)
(* statements no other action can tell apart), and lets the handler fire   *)
(* at every value of pc.  The printer, the clock and the camera are the    *)
(* environment.                                                            *)
(***************************************************************************)
EXTENDS Integers, Sequences, FiniteSets, TLC

(***************************************************************************)
(* Bounds of the model.                                                    *)
(***************************************************************************)
\* the clock runs over 0..MaxTime
MaxTime == 4
\* layer numbers reported by the printer are 0..MaxLayer
MaxLayer == 1
\* onePhoto is not entered once frame has reached MaxFrame
MaxFrame == 2
\* number of SIGINT deliveries in one run
MaxSigint == 1
\* the non-zero value of -seconds that is explored
IntervalS == 1

VARIABLES
    \* command line (lines 76-88), fixed after init()
    detect, pause, movehead, seconds, dontwait, camera,
    \* globals (lines 42-46) and the loop's status (line 394)
    zo, frame, printerState, timePriorPhoto, alreadyPaused, status,
    \* zn of oneInterval (line 313); it keeps the reading of the last
    \* invocation until the next one reads again
    zn,
    \* control: position of the main thread, and the call site of
    \* checkForcePause / onePhoto inside oneInterval
    pc, branch,
    \* environment: wall clock, the printer's status
    now, pstatus,
    \* process outcome: exit code (-1 while running), SIGINTs delivered
    exitCode, sigints,
    \* history: number of assembler (ffmpeg, line 355) invocations and the
    \* frame count the last one was started with
    nAssemble, asmFrames,
    \* history: slot numbers handed to the capture command (line 303), in
    \* order, and whether the last capture command failed
    slots, captureFailed,
    \* history: events (printer commands, "photo") of the trigger being
    \* served, whether that trigger found the forced pause armed, and
    \* whether a pause issued or detected by the program awaits its resume
    tseq, trigArmed, openSeq,
    \* history, kept during one evaluator invocation: the layer reading of
    \* the invocation before it, whether its layer branch captured
    prevRead, firedLayer,
    \* history: time of the last interval-triggered capture (-1: none)
    lastIvl,
    \* history of the printer's current pause episode: captures, resume
    \* commands, line-328 reads that saw it, resume issued before a capture,
    \* whether a line-328 read found it with alreadyPaused false
    epCaps, epRes, epTicks, epEarly, epDet,
    \* history of the current tick: the frame counter it began with and how
    \* many of the conditions of lines 314, 323 and 328 held when the
    \* evaluator tested them
    frame0, nCond

cfgvars  == <<detect, pause, movehead, seconds, dontwait, camera>>
progvars == <<zo, frame, printerState, timePriorPhoto, alreadyPaused, status,
              zn, pc, branch>>
envvars  == <<now, pstatus>>
procvars == <<exitCode, sigints, nAssemble, asmFrames>>
histvars == <<slots, captureFailed, tseq, trigArmed, openSeq,
              prevRead, firedLayer, lastIvl>>
epvars   == <<epCaps, epRes, epTicks, epEarly, epDet>>
tickvars == <<frame0, nCond>>
vars == <<cfgvars, progvars, envvars, procvars, histvars, epvars, tickvars>>

Status == {"idle", "processing", "paused", "other"}
Layers == 0..MaxLayer
NoTarget == <<0, 0>>
Targets == {NoTarget, <<10, 20>>}

\* the choices of -camera (line 57); init() lets all of them through, its
\* test of line 142 looks for 'dlsr'
Cameras == {"usb", "pi", "ffmpeg", "web", "dslr"}

\* the cameras that are explored: camera is read only by HasCommand, and
\* "pi", "ffmpeg" and "web" take the path of "usb" through every action
CamerasExplored == {"usb", "dslr"}

\* zo = -1 (line 42): the "unset" last-observed layer
ZoUnset == -1

Min(a, b) == IF a < b THEN a ELSE b

IsPrefix(s, t) == Len(s) <= Len(t) /\ SubSeq(t, 1, Len(s)) = s

(***************************************************************************)
(* init(), lines 147-159: the flag combinations that survive validation.   *)
(***************************************************************************)
ValidCombination(d, p, mh) ==
    /\ ~((mh # NoTarget) /\ (p # "yes") /\ (d # "pause"))     \* 151-153
    /\ ~((p = "yes") /\ (d = "pause"))                        \* 155-159

(***************************************************************************)
(* The decisions of the code, one operator each.                           *)
(***************************************************************************)
LayerChanged_OnlyUp(n, o) == n > o

\* line 314: if (not zn == zo)
LayerChanged(n, o) == ~(n = o)

IntervalDue_Inverted(s, e) == (s # 0) /\ (s > e)

IntervalDue_Inclusive(s, e) == (s # 0) /\ (s <= e)

IntervalDue_Dedup(s, e) == (s # 0) /\ (s < e) /\ (branch = "none")

\* line 323: if ((seconds) and (seconds < elap))
IntervalDue(s, e) == (s # 0) /\ (s < e)

ForcePauseNeeded_NoFlag(ap, p) == p = "yes"

\* lines 258-259: checkForcePause returns early unless this holds
ForcePauseNeeded(ap, p) == (~ap) /\ (p = "yes")

MoveConfigured_Inverted(mh) == mh = NoTarget

\* line 264: if(not movehead == [0.0,0.0])
MoveConfigured(mh) == mh # NoTarget

PauseDetected_NoFlag(d, st, ap) == (d = "pause") /\ (st = "paused")

\* line 328: ('pause' in detect) and ('paused' in getStatus()) and not alreadyPaused
PauseDetected(d, st, ap) == (d = "pause") /\ (st = "paused") /\ (~ap)

PauseCleared_Never(ap, st) == FALSE

\* line 334: alreadyPaused and (not 'paused' in getStatus())
PauseCleared(ap, st) == ap /\ (st # "paused")

NextFrame_Lost(f) == f

\* line 277: frame += 1
NextFrame(f) == f + 1

AfterCapture_Fatal(failed) == IF failed THEN "crashed" ELSE "ph_time"

\* line 303: subprocess.call(cmd, shell=True); the return code of the
\* capture command is dropped and onePhoto goes on to line 305
AfterCapture(failed) == "ph_time"

\* lines 281-301: onePhoto assigns cmd for usb, pi, ffmpeg and web only
HasCommand(cam) == cam \in {"usb", "pi", "ffmpeg", "web"}

\* line 321: elap = time.time() - timePriorPhoto
Elapsed(t, tpp) == t - tpp

NextPrinterState_NoPhase(ps, st) ==
    IF st = "processing" THEN 1
    ELSE IF st = "idle" THEN 2
    ELSE ps

\* lines 396-409: the phase after a tick that read st in phase ps
NextPrinterState(ps, st) ==
    IF ps = 0 /\ st = "processing" THEN 1
    ELSE IF ps = 1 /\ st = "idle" THEN 2
    ELSE ps

Dispatch_NoWait(ps, dw) ==
    IF ps \in {0, 1} THEN "oi_layer" ELSE "post"

Dispatch_EvalWhenFinished(ps, dw) ==
    IF ps = 0 THEN (IF dw THEN "oi_layer" ELSE "chk") ELSE "oi_layer"

\* lines 396-412: where the loop body goes after the status read
Dispatch(ps, dw) ==
    IF ps = 0 THEN (IF dw THEN "oi_layer" ELSE "chk")
    ELSE IF ps = 1 THEN "oi_layer"
    ELSE "post"

(***************************************************************************)
(* State after init() and lines 377-389: globals at their initial values,  *)
(* timePriorPhoto = time.time(), the SIGINT handler installed, the loop    *)
(* about to sleep for the first time.                                      *)
(***************************************************************************)
Init ==
    /\ detect \in {"layer", "pause", "none"}
    /\ pause \in {"yes", "no"}
    /\ movehead \in Targets
    /\ ValidCombination(detect, pause, movehead)
    /\ seconds \in {0, IntervalS}
    /\ dontwait \in BOOLEAN
    /\ camera \in CamerasExplored
    /\ zo = ZoUnset
    /\ frame = 0
    /\ printerState = 0
    /\ now = 0
    /\ timePriorPhoto = 0
    /\ alreadyPaused = FALSE
    /\ status = "unread"
    /\ zn = ZoUnset
    /\ pc = "sleep"
    /\ branch = "none"
    /\ pstatus \in Status
    /\ exitCode = -1
    /\ sigints = 0
    /\ nAssemble = 0
    /\ asmFrames = -1
    /\ slots = <<>>
    /\ captureFailed = FALSE
    /\ tseq = <<>>
    /\ trigArmed = FALSE
    /\ openSeq = FALSE
    /\ prevRead = ZoUnset
    /\ firedLayer = FALSE
    /\ lastIvl = -1
    /\ epCaps = 0
    /\ epRes = 0
    /\ epTicks = 0
    /\ epEarly = FALSE
    /\ epDet = FALSE
    /\ frame0 = 0
    /\ nCond = 0

(***************************************************************************)
(* History bookkeeping shared by the actions.                              *)
(***************************************************************************)
Live == pc \notin {"exited", "crashed"}

\* a trigger fires: its event sequence starts empty; armed records whether
\* it fired in forced-pause mode with no pause recorded
TriggerStarts(armed) ==
    /\ tseq' = <<>>
    /\ trigArmed' = armed

\* a printer command or a capture is appended to the trigger's sequence
Issue(ev) == tseq' = Append(tseq, ev)

\* where checkForcePause returns to: line 317 (layer) or line 325 (seconds)
AfterForcePause == IF branch = "layer" THEN "oi_coords" ELSE "ph_inc"

\* where onePhoto returns to: line 319, line 328 or line 332
AfterPhoto ==
    IF branch = "layer" THEN "oi_zo"
    ELSE IF branch = "secs" THEN "oi_detect"
    ELSE "unpause"

(***************************************************************************)
(* Main loop, lines 392-412.                                               *)
(***************************************************************************)
\* line 393: time.sleep(.77)
Sleep ==
    /\ pc = "sleep"
    /\ pc' = "tick_status"
    /\ UNCHANGED <<cfgvars, tickvars, zo, frame, printerState, timePriorPhoto,
                   alreadyPaused, status, zn, branch,
                   envvars, procvars, histvars, epvars>>

\* line 394: status=printer.getStatus(), then the dispatch of 396/406/411
TickStatus ==
    /\ pc = "tick_status"
    /\ status' = pstatus
    /\ pc' = Dispatch(printerState, dontwait)
    /\ UNCHANGED <<cfgvars, tickvars, zo, frame, printerState, timePriorPhoto,
                   alreadyPaused, zn, branch,
                   envvars, procvars, histvars, epvars>>

\* lines 399-404 and 408-409: the phase change, after oneInterval returned
\* (the histories of that invocation end here)
PhaseCheck ==
    /\ pc = "chk"
    /\ printerState' = NextPrinterState(printerState, status)
    /\ branch' = "none"
    /\ pc' = "sleep"
    /\ tseq' = <<>>
    /\ trigArmed' = FALSE
    /\ captureFailed' = FALSE
    /\ prevRead' = ZoUnset
    /\ firedLayer' = FALSE
    /\ frame0' = frame
    /\ nCond' = 0
    /\ UNCHANGED <<cfgvars, zo, frame, timePriorPhoto, alreadyPaused, status,
                   zn, envvars, procvars, slots, openSeq, lastIvl, epvars>>

(***************************************************************************)
(* oneInterval, lines 308-335.                                             *)
(***************************************************************************)
\* lines 311-314: the layer read and the comparison with zo
LayerRead ==
    /\ pc = "oi_layer"
    /\ IF detect = "layer"
       THEN \E l \in Layers :
              /\ zn' = l
              /\ prevRead' = zn
              /\ firedLayer' = FALSE
              /\ nCond' = IF l # zo THEN nCond + 1 ELSE nCond
              /\ IF LayerChanged(l, zo)
                 THEN /\ pc' = "cfp"
                      /\ branch' = "layer"
                      /\ TriggerStarts(pause = "yes" /\ ~alreadyPaused)
                 ELSE /\ pc' = "oi_zo"
                      /\ UNCHANGED <<branch, tseq, trigArmed>>
       ELSE /\ pc' = "oi_elap"
            /\ UNCHANGED <<zn, prevRead, firedLayer, branch,
                           tseq, trigArmed, nCond>>
    /\ UNCHANGED frame0
    /\ UNCHANGED <<cfgvars, zo, frame, printerState, timePriorPhoto,
                   alreadyPaused, status, envvars, procvars,
                   slots, captureFailed, openSeq, lastIvl, epvars>>

\* line 317: the three printer.getCoords() queries of the log line
CoordsRead ==
    /\ pc = "oi_coords"
    /\ pc' = "ph_inc"
    /\ UNCHANGED <<cfgvars, tickvars, zo, frame, printerState, timePriorPhoto,
                   alreadyPaused, status, zn, branch,
                   envvars, procvars, histvars, epvars>>

\* line 319: zo = zn
LayerStore ==
    /\ pc = "oi_zo"
    /\ zo' = zn
    /\ pc' = "oi_elap"
    /\ UNCHANGED <<cfgvars, tickvars, frame, printerState, timePriorPhoto,
                   alreadyPaused, status, zn, branch,
                   envvars, procvars, histvars, epvars>>

\* lines 321-323: elap and the interval test
IntervalTest ==
    /\ pc = "oi_elap"
    /\ IF IntervalDue(seconds, Elapsed(now, timePriorPhoto))
       THEN /\ pc' = "cfp"
            /\ branch' = "secs"
            /\ TriggerStarts(pause = "yes" /\ ~alreadyPaused)
       ELSE /\ pc' = "oi_detect"
            /\ UNCHANGED <<branch, tseq, trigArmed>>
    /\ nCond' = IF seconds > 0 /\ now - timePriorPhoto > seconds
                 THEN nCond + 1 ELSE nCond
    /\ UNCHANGED frame0
    /\ UNCHANGED <<cfgvars, zo, frame, printerState, timePriorPhoto,
                   alreadyPaused, status, zn, envvars, procvars,
                   slots, captureFailed, openSeq, prevRead,
                   firedLayer, lastIvl, epvars>>

\* lines 328-329: the status read of the pause detection; alreadyPaused = True
DetectPause ==
    /\ pc = "oi_detect"
    /\ IF PauseDetected(detect, pstatus, alreadyPaused)
       THEN /\ alreadyPaused' = TRUE
            /\ pc' = "ph_inc"
            /\ branch' = "detect"
            /\ TriggerStarts(FALSE)
            /\ openSeq' = TRUE
       ELSE /\ pc' = "oi_clear"
            /\ UNCHANGED <<alreadyPaused, branch, tseq, trigArmed, openSeq>>
    /\ epTicks' = IF detect = "pause" /\ pstatus = "paused"
                  THEN Min(epTicks + 1, 2) ELSE epTicks
    /\ epDet' = (epDet \/ (detect = "pause" /\ pstatus = "paused"
                                /\ ~alreadyPaused))
    /\ nCond' = IF detect = "pause" /\ pstatus = "paused" /\ ~alreadyPaused
                 THEN nCond + 1 ELSE nCond
    /\ UNCHANGED frame0
    /\ UNCHANGED <<cfgvars, zo, frame, printerState, timePriorPhoto,
                   status, zn, envvars, procvars,
                   slots, captureFailed, prevRead, firedLayer,
                   lastIvl, epCaps, epRes, epEarly>>

\* lines 334-335: the flag is cleared on a status read that is not 'paused'
ClearPaused ==
    /\ pc = "oi_clear"
    /\ alreadyPaused' = IF PauseCleared(alreadyPaused, pstatus)
                        THEN FALSE ELSE alreadyPaused
    /\ pc' = "chk"
    /\ UNCHANGED tickvars
    /\ UNCHANGED <<cfgvars, zo, frame, printerState, timePriorPhoto,
                   status, zn, branch,
                   envvars, procvars, histvars, epvars>>

(***************************************************************************)
(* checkForcePause, lines 254-267.                                         *)
(***************************************************************************)
\* lines 258-259: the two early returns
ForcePauseEntry ==
    /\ pc = "cfp"
    /\ pc' = IF ForcePauseNeeded(alreadyPaused, pause)
             THEN "cfp_m25" ELSE AfterForcePause
    /\ UNCHANGED <<cfgvars, tickvars, zo, frame, printerState, timePriorPhoto,
                   alreadyPaused, status, zn, branch,
                   envvars, procvars, histvars, epvars>>

\* line 261: printer.gCode('M25')
ForcePauseM25 ==
    /\ pc = "cfp_m25"
    /\ Issue("M25")
    /\ openSeq' = TRUE
    /\ pc' = "cfp_m400"
    /\ UNCHANGED <<cfgvars, tickvars, zo, frame, printerState, timePriorPhoto,
                   alreadyPaused, status, zn, branch,
                   envvars, procvars, slots, captureFailed, trigArmed,
                   prevRead, firedLayer, lastIvl, epvars>>

\* line 262: printer.gCode('M400')
ForcePauseSync ==
    /\ pc = "cfp_m400"
    /\ Issue("M400")
    /\ pc' = "cfp_flag"
    /\ UNCHANGED <<cfgvars, tickvars, zo, frame, printerState, timePriorPhoto,
                   alreadyPaused, status, zn, branch,
                   envvars, procvars, slots, captureFailed, trigArmed,
                   openSeq, prevRead, firedLayer, lastIvl, epvars>>

\* lines 263-264: alreadyPaused = True, then the test of movehead
ForcePauseFlag ==
    /\ pc = "cfp_flag"
    /\ alreadyPaused' = TRUE
    /\ pc' = IF MoveConfigured(movehead) THEN "cfp_g1" ELSE AfterForcePause
    /\ UNCHANGED <<cfgvars, tickvars, zo, frame, printerState, timePriorPhoto,
                   status, zn, branch,
                   envvars, procvars, histvars, epvars>>

\* line 266: printer.gCode('G1 X.. Y..')
ForcePauseMove ==
    /\ pc = "cfp_g1"
    /\ Issue("G1")
    /\ pc' = "cfp_m400b"
    /\ UNCHANGED <<cfgvars, tickvars, zo, frame, printerState, timePriorPhoto,
                   alreadyPaused, status, zn, branch,
                   envvars, procvars, slots, captureFailed, trigArmed,
                   openSeq, prevRead, firedLayer, lastIvl, epvars>>

\* line 267: printer.gCode('M400') after the move
ForcePauseMoveSync ==
    /\ pc = "cfp_m400b"
    /\ Issue("M400")
    /\ pc' = AfterForcePause
    /\ UNCHANGED <<cfgvars, tickvars, zo, frame, printerState, timePriorPhoto,
                   alreadyPaused, status, zn, branch,
                   envvars, procvars, slots, captureFailed, trigArmed,
                   openSeq, prevRead, firedLayer, lastIvl, epvars>>

(***************************************************************************)
(* unPause, lines 269-273.                                                 *)
(***************************************************************************)
UnPause ==
    /\ pc = "unpause"
    /\ IF alreadyPaused
       THEN /\ Issue("M24")
            /\ openSeq' = FALSE
            /\ epRes' = IF pstatus = "paused" THEN Min(epRes + 1, 2) ELSE epRes
            /\ epEarly' = (epEarly \/ (pstatus = "paused" /\ epCaps = 0))
       ELSE UNCHANGED <<tseq, openSeq, epRes, epEarly>>
    /\ pc' = "oi_clear"
    /\ UNCHANGED <<cfgvars, tickvars, zo, frame, printerState, timePriorPhoto,
                   alreadyPaused, status, zn, branch,
                   now, pstatus, procvars, slots, captureFailed, trigArmed,
                   prevRead, firedLayer, lastIvl, epCaps, epTicks, epDet>>

(***************************************************************************)
(* onePhoto, lines 275-305.                                                *)
(***************************************************************************)
\* line 277: frame += 1
PhotoCount ==
    /\ pc = "ph_inc"
    /\ frame < MaxFrame
    /\ frame' = NextFrame(frame)
    /\ pc' = "ph_call"
    /\ UNCHANGED <<cfgvars, tickvars, zo, printerState, timePriorPhoto,
                   alreadyPaused, status, zn, branch,
                   envvars, procvars, histvars, epvars>>

\* lines 278-303: the slot is named after frame and the capture command runs;
\* its return code is ignored
PhotoCapture ==
    /\ pc = "ph_call"
    /\ HasCommand(camera)
    /\ slots' = Append(slots, frame)
    /\ \E failed \in BOOLEAN :
         /\ captureFailed' = failed
         /\ pc' = AfterCapture(failed)
    /\ Issue("photo")
    /\ firedLayer' = (firedLayer \/ branch = "layer")
    /\ lastIvl' = IF branch = "secs" THEN now ELSE lastIvl
    /\ epCaps' = IF detect = "pause" /\ pstatus = "paused"
                 THEN Min(epCaps + 1, 2) ELSE epCaps
    /\ UNCHANGED <<cfgvars, tickvars, zo, frame, printerState, timePriorPhoto,
                   alreadyPaused, status, zn, branch,
                   envvars, procvars, trigArmed, openSeq, prevRead,
                   epRes, epTicks, epEarly, epDet>>

\* line 303 with no cmd assigned (-camera dslr): UnboundLocalError, which
\* no handler catches; the process ends with exit code 1
PhotoNoCommand ==
    /\ pc = "ph_call"
    /\ ~HasCommand(camera)
    /\ pc' = "crashed"
    /\ exitCode' = 1
    /\ UNCHANGED <<cfgvars, tickvars, zo, frame, printerState, timePriorPhoto,
                   alreadyPaused, status, zn, branch,
                   envvars, sigints, nAssemble, asmFrames, histvars, epvars>>

\* line 305: timePriorPhoto = time.time()
PhotoTime ==
    /\ pc = "ph_time"
    /\ timePriorPhoto' = now
    /\ pc' = AfterPhoto
    /\ UNCHANGED <<cfgvars, tickvars, zo, frame, printerState,
                   alreadyPaused, status, zn, branch,
                   envvars, procvars, histvars, epvars>>

(***************************************************************************)
(* postProcess, lines 338-358, and quit_gracefully, lines 383-386.         *)
(***************************************************************************)
\* lines 339-355: the encoder is started over the frames counted so far
PostProcessStart ==
    /\ pc = "post"
    /\ nAssemble' = nAssemble + 1
    /\ asmFrames' = frame
    /\ pc' = "pp_run"
    /\ UNCHANGED <<cfgvars, tickvars, zo, frame, printerState, timePriorPhoto,
                   alreadyPaused, status, zn, branch,
                   envvars, exitCode, sigints, histvars, epvars>>

\* lines 355-358: the encoder returns and exit() ends the process with code 0
PostProcessExit ==
    /\ pc = "pp_run"
    /\ exitCode' = 0
    /\ pc' = "exited"
    /\ UNCHANGED <<cfgvars, tickvars, zo, frame, printerState, timePriorPhoto,
                   alreadyPaused, status, zn, branch,
                   envvars, sigints, nAssemble, asmFrames, histvars, epvars>>

\* lines 383-389: SIGINT runs quit_gracefully between any two bytecodes of
\* the main thread, postProcess included; postProcess ends in exit(), so
\* the interrupted code is never resumed
QuitGracefully ==
    /\ Live
    /\ sigints < MaxSigint
    /\ sigints' = sigints + 1
    /\ pc' = "post"
    /\ UNCHANGED <<cfgvars, tickvars, zo, frame, printerState, timePriorPhoto,
                   alreadyPaused, status, zn, branch,
                   envvars, exitCode, nAssemble, asmFrames, histvars, epvars>>

(***************************************************************************)
(* A printer call raises (the printer is unreachable): the exception is    *)
(* not a KeyboardInterrupt, so line 413 does not catch it and the process  *)
(* ends with a traceback.                                                  *)
(***************************************************************************)
AtPrinterCall ==
    \/ pc \in {"tick_status", "cfp_m25", "cfp_m400", "cfp_g1", "cfp_m400b",
               "oi_coords"}
    \/ pc = "oi_layer" /\ detect = "layer"
    \/ pc = "oi_detect" /\ detect = "pause"
    \/ pc \in {"unpause", "oi_clear"} /\ alreadyPaused

PrinterCallFails ==
    /\ AtPrinterCall
    /\ pc' = "crashed"
    /\ exitCode' = 1
    /\ UNCHANGED <<cfgvars, tickvars, zo, frame, printerState, timePriorPhoto,
                   alreadyPaused, status, zn, branch,
                   envvars, sigints, nAssemble, asmFrames, histvars, epvars>>

(***************************************************************************)
(* Environment.                                                            *)
(***************************************************************************)
\* time.time() moves on.  The clock is read at lines 321 and 305 and when
\* a capture is taken, so it is enough to let it move right before those.
ClockObserved == pc \in {"oi_elap", "ph_call", "ph_time"}

Advance ==
    /\ ClockObserved
    /\ now < MaxTime
    /\ now' = now + 1
    /\ UNCHANGED <<cfgvars, tickvars, progvars, pstatus,
                   procvars,
                   histvars, epvars>>

\* the printer's status changes; a new pause episode starts its history.
\* The status is read at lines 394, 328 and 334 and the episode's history
\* is written at the capture and at the resume, so it is enough to let the
\* printer move right before those.
PrinterObserved ==
    pc \in {"tick_status", "oi_detect", "oi_clear", "ph_call", "unpause"}

PrinterAny ==
    /\ PrinterObserved
    /\ \E s \in Status \ {pstatus} :
         /\ pstatus' = s
         /\ IF s = "paused"
            THEN /\ epCaps' = 0
                 /\ epRes' = 0
                 /\ epTicks' = 0
                 /\ epEarly' = FALSE
                 /\ epDet' = FALSE
            ELSE UNCHANGED epvars
    /\ UNCHANGED <<cfgvars, tickvars, progvars, now, procvars, histvars>>

\* the statements of the main thread, and of the handler once it runs
MainThread ==
    \/ Sleep \/ TickStatus \/ PhaseCheck
    \/ LayerRead \/ CoordsRead \/ LayerStore \/ IntervalTest
    \/ DetectPause \/ ClearPaused
    \/ ForcePauseEntry \/ ForcePauseM25 \/ ForcePauseSync \/ ForcePauseFlag
    \/ ForcePauseMove \/ ForcePauseMoveSync
    \/ UnPause
    \/ PhotoCount \/ PhotoCapture \/ PhotoNoCommand \/ PhotoTime
    \/ PostProcessStart \/ PostProcessExit

Program ==
    \/ MainThread
    \/ QuitGracefully
    \/ PrinterCallFails

Next == Program \/ Advance \/ PrinterAny

Spec == Init /\ [][Next]_vars

\* a run that is not cancelled, with a printer whose calls never fail, and
\* the interpreter going on to the next statement: time.sleep, the requests
\* to the printer, the capture command and ffmpeg return
NextFair == MainThread \/ Advance \/ PrinterAny

SpecFair == Init /\ [][NextFair]_vars /\ WF_vars(MainThread)

(***************************************************************************)
(* The claims.                                                             *)
(***************************************************************************)

\* what a forced-pause trigger issues up to and including its capture
ForcedSequence ==
    <<"M25", "M400">>
    \o (IF movehead # NoTarget THEN <<"G1", "M400">> ELSE <<>>)
    \o <<"photo">>

\* C1: in forced-pause mode, a layer or interval trigger that fires while no
\* pause is recorded issues pause, sync, then (only with a head target) move,
\* sync, and only then captures: at every moment the events of that trigger
\* are a prefix of that sequence, so no capture lies between a pause or a
\* move and the sync that follows it.
C1_ForcedPauseOrder ==
    (pause = "yes" /\ trigArmed) => IsPrefix(tseq, ForcedSequence)

C1_Witness ==
    /\ pause = "yes" /\ trigArmed
    /\ tseq = <<"M25", "M400", "G1", "M400", "photo">>

\* C2: in forced-pause mode, when an evaluator invocation returns, every
\* pause command it issued has been followed by a resume command.
C2_ForcedPauseResumed ==
    (pause = "yes" /\ pc = "chk") => ~openSeq

\* C3, as stated: in pause-detect mode with the interval disabled, every
\* pause episode that ends has seen exactly one capture and exactly one
\* resume command, the capture first.
C3_OneCapturePerEpisode ==
    [][(detect = "pause" /\ seconds = 0
        /\ pstatus = "paused" /\ pstatus' # "paused")
       => (epCaps = 1 /\ epRes = 1 /\ ~epEarly)]_vars

\* C3, amended: in pause-detect mode with the interval disabled, a pause
\* episode sees at most one capture and at most one resume command, however
\* many ticks see the status 'paused'; an episode that a read of line 328
\* found with alreadyPaused false and that was still on when the resume
\* command was issued has seen exactly one capture and exactly one resume
\* command, the capture first.
C3_AtMostOncePerEpisode ==
    (detect = "pause" /\ seconds = 0 /\ pstatus = "paused") =>
        /\ epCaps <= 1
        /\ epRes <= 1
        /\ (epDet /\ epRes >= 1) => (epCaps = 1 /\ ~epEarly)

\* an episode that two ticks saw, captured once and resumed once
C3_Witness ==
    /\ detect = "pause" /\ seconds = 0
    /\ pstatus = "paused"
    /\ epDet
    /\ epTicks = 2 /\ epCaps = 1 /\ epRes = 1

\* C4: in layer mode, when the layer branch of an evaluator invocation is
\* done, it has captured if and only if its reading differs from the reading
\* of the invocation before it (unset before the first), up or down, and the
\* last-observed layer is the new reading.
C4_LayerTrigger ==
    (detect = "layer" /\ pc = "oi_elap") =>
        /\ firedLayer <=> (zn # prevRead)
        /\ zo = zn

C4_Witness ==
    /\ detect = "layer" /\ seconds = 0 /\ pc = "oi_elap"
    /\ prevRead # ZoUnset /\ zn < prevRead
    /\ firedLayer

\* C5: an interval-triggered capture is taken no sooner than the interval
\* after the time of the last photo of any kind, hence no sooner than the
\* interval after the previous interval-triggered capture.
C5_IntervalGap ==
    [][(pc = "ph_call" /\ pc' = "ph_time" /\ branch = "secs")
       => /\ now - timePriorPhoto >= seconds
          /\ lastIvl >= 0 => now - lastIvl >= seconds]_vars

C5_Witness ==
    /\ detect = "none" /\ seconds > 0
    /\ pc = "ph_time" /\ branch = "secs"
    /\ Len(slots) = 2
    /\ lastIvl - timePriorPhoto > seconds

\* C6: the slots handed to the capture command are 1, 2, 3, ... in order,
\* and the frame counter equals their number, being one ahead exactly from
\* the increment of an onePhoto call to its capture command (or for good, when
\* SIGINT or the missing command of -camera dslr ended the run in between).
C6_FrameNumbering ==
    /\ \A i \in 1..Len(slots) : slots[i] = i
    /\ frame \in {Len(slots), Len(slots) + 1}
    /\ pc \notin {"ph_call", "post", "pp_run", "exited", "crashed"} =>
           frame = Len(slots)
    /\ (pc = "crashed" /\ HasCommand(camera)) => frame = Len(slots)
    /\ pc = "ph_call" => frame = Len(slots) + 1

C6_Witness ==
    /\ slots = <<1, 2>>
    /\ frame = 2
    /\ pc = "sleep"

\* C7: the assembler is invoked exactly once per run that ends by the idle
\* transition or by SIGINT, with the frame count of that moment, and the
\* process exits with code 0.
C7_AssembledOnce ==
    /\ nAssemble <= 1
    /\ pc = "exited" => (nAssemble = 1 /\ asmFrames = frame /\ exitCode = 0)

\* C8: when video assembly starts after a cancellation, no pause issued or
\* detected by the program is still waiting for its resume.
C8_NoCancelMidSequence ==
    (pc = "post" /\ sigints > 0) => ~openSeq

\* C9: a run that a failing printer call ended has invoked the assembler.
C9_FailureStillAssembles ==
    pc = "crashed" => nAssemble >= 1

\* C10: the phase starts at 0 and never decreases; it changes only at the
\* phase test of a tick, from 0 to 1 when that tick read 'processing' and
\* from 1 to 2 when that tick read 'idle'; 2 is left by no step.
C10_PhaseForward ==
    /\ printerState = 0
    /\ [][/\ printerState' >= printerState
          /\ printerState' # printerState =>
               /\ pc = "chk"
               /\ \/ printerState = 0 /\ printerState' = 1 /\ status = "processing"
                  \/ printerState = 1 /\ printerState' = 2 /\ status = "idle"]_vars

C10_Witness ==
    /\ printerState = 2
    /\ status = "idle"

\* the positions of the main thread inside oneInterval (lines 308-335) and
\* inside the checkForcePause, onePhoto and unPause calls it makes
EvaluatorPcs ==
    {"oi_layer", "oi_coords", "oi_zo", "oi_elap", "oi_detect", "oi_clear",
     "cfp", "cfp_m25", "cfp_m400", "cfp_flag", "cfp_g1", "cfp_m400b",
     "ph_inc", "ph_call", "ph_time", "unpause"}

\* C11: in a run that is not cancelled, with a printer whose calls do not
\* fail and a main thread that keeps running, a tick of the Printing phase that read 'idle' (and has room
\* under MaxFrame for the captures of its evaluator invocation, two at
\* most) is followed by an assembler invocation and the end of the process
\* with exit code 0.
C11_IdleLeadsToAssembly ==
    (/\ printerState = 1
     /\ status = "idle"
     /\ pc = "oi_layer"
     /\ frame + 2 <= MaxFrame)
        ~> (pc = "exited" /\ nAssemble >= 1 /\ exitCode = 0)

\* C12: a capture command that fails is not fatal.  The step that runs it
\* goes on to line 305 with the slot named after the frame counter, which
\* has advanced by exactly one for this capture (as many slots as
\* increments) and is above every earlier slot; phase, pause flag and exit
\* code are untouched; the next step of the main thread stores the time of
\* the photo and returns to the caller of onePhoto.
C12_FailedCaptureNotFatal ==
    [][/\ (pc = "ph_call" /\ slots' # slots /\ captureFailed') =>
            /\ pc' = "ph_time"
            /\ slots' = Append(slots, frame)
            /\ frame = Len(slots')
            /\ \A i \in 1..Len(slots) : slots[i] < frame
            /\ UNCHANGED <<frame, printerState, alreadyPaused, exitCode>>
       /\ (pc = "ph_time" /\ captureFailed /\ pc' \notin {"ph_time", "post"}) =>
            /\ timePriorPhoto' = now
            /\ pc' \in {"oi_zo", "oi_detect", "unpause"}
            /\ UNCHANGED <<frame, printerState, alreadyPaused, exitCode>>]_vars

\* the evaluator has returned to the loop after a capture that failed, the
\* second capture of the run
C12_Witness ==
    /\ pc = "chk"
    /\ captureFailed
    /\ frame = 2
    /\ timePriorPhoto > 0
    /\ exitCode = -1

\* C13: while the phase is 0 the status read of a tick is followed by the
\* trigger evaluator exactly when -dontwait is set.  Without -dontwait,
\* phase 0 sees no evaluator step, no capture and no printer command, the
\* phase becomes 1 with frame still 0, and it does so at the phase test of
\* the tick that read 'processing', which goes back to sleep.
C13_AwaitingPrint ==
    /\ []((printerState = 0 /\ ~dontwait) =>
            /\ pc \notin EvaluatorPcs
            /\ frame = 0
            /\ slots = <<>>
            /\ tseq = <<>>
            /\ ~openSeq)
    /\ [][/\ (pc = "tick_status" /\ printerState = 0
                /\ pc' \notin {"tick_status", "post", "crashed"}) =>
               /\ (pc' = "oi_layer") <=> dontwait
               /\ (pc' = "chk") <=> ~dontwait
          /\ (printerState = 0 /\ printerState' # 0 /\ ~dontwait) =>
               /\ pc = "chk"
               /\ status = "processing"
               /\ pc' = "sleep"
               /\ frame' = 0]_vars

\* Printing was entered without -dontwait: nothing was captured or read
C13_Witness ==
    /\ ~dontwait
    /\ printerState = 1
    /\ status = "processing"
    /\ pc = "sleep"
    /\ frame = 0
    /\ zn = ZoUnset

\* C14, as stated: the interval test fires whenever the time since the last
\* photo is greater than or equal to the interval S > 0.
C14_FiresAtInterval ==
    [][(/\ pc = "oi_elap"
        /\ pc' \in {"cfp", "oi_detect"}
        /\ seconds > 0
        /\ now - timePriorPhoto >= seconds) => pc' = "cfp"]_vars

\* C14, amended: the interval test fires exactly when the time since the
\* last photo is strictly greater than the interval S > 0; when it equals S
\* the test does not fire.
C14_FiresAfterInterval ==
    [][(pc = "oi_elap" /\ pc' \in {"cfp", "oi_detect"}) =>
          ((pc' = "cfp") <=>
              (seconds > 0 /\ now - timePriorPhoto > seconds))]_vars

\* the interval test has just been passed with exactly S elapsed and
\* nothing has been captured
C14_Witness ==
    /\ pc = "oi_detect"
    /\ seconds > 0
    /\ now - timePriorPhoto = seconds
    /\ frame = 0

\* C15, as stated, for the first capturing tick of a run (frame0 = 0, so
\* the last photo time the tick began with is the start time 0 of line
\* 377): when the layer branch has fired, and more than the interval S > 0
\* had elapsed since that time already when its photo was taken, the
\* interval branch fires as well.
C15_EachConditionFires ==
    [][(/\ pc = "oi_elap"
        /\ pc' \in {"cfp", "oi_detect"}
        /\ frame0 = 0
        /\ firedLayer
        /\ seconds > 0
        /\ timePriorPhoto - 0 > seconds) => pc' = "cfp"]_vars

\* C15, amended: the branches are tested one after the other, each against
\* the state the earlier ones left (a capture restarts the time since the
\* last photo), and every branch whose condition holds when it is tested
\* takes a frame of its own: when the evaluator returns, the frame counter
\* has advanced by the number of conditions that held when tested.
C15_OneFramePerFiringBranch ==
    pc = "chk" => frame = frame0 + nCond

\* the evaluator returns from a tick on which the interval and the pause
\* detection both fired
C15_Witness ==
    /\ pc = "chk"
    /\ detect = "pause"
    /\ nCond = 2
    /\ frame = frame0 + 2
    /\ slots = <<1, 2>>

\* C16: M25 is issued only with -pause yes and alreadyPaused false; a
\* trigger that starts otherwise (force-pause not configured, or the flag
\* still set) issues no M25, G1 or M400; and the flag, once set, is cleared
\* only by the status read of line 334 returning something else than
\* 'paused', so no second M25 comes before that.
C16_PauseOnlyWhenArmed ==
    /\ [](~trigArmed =>
            \A i \in 1..Len(tseq) : tseq[i] \notin {"M25", "G1", "M400"})
    /\ [][/\ tseq' = Append(tseq, "M25") =>
               (pause = "yes" /\ ~alreadyPaused)
          /\ (alreadyPaused /\ ~alreadyPaused') =>
               (pc = "oi_clear" /\ pstatus # "paused")]_vars

\* forced-pause mode, a trigger fired while alreadyPaused was still set
\* and has captured without a pause or a move
C16_Witness ==
    /\ pause = "yes"
    /\ alreadyPaused
    /\ ~trigArmed
    /\ branch \in {"layer", "secs"}
    /\ tseq = <<"photo">>
    /\ frame = 2

\* C17: the evaluator returns with alreadyPaused set only if the flag was
\* set when line 334 was reached and the status read there, the last one
\* of the invocation, reported 'paused'; a read there of anything else
\* clears the flag.
C17_FlagNeedsPausedRead ==
    [][(pc = "oi_clear" /\ pc' = "chk") =>
          /\ alreadyPaused' => (alreadyPaused /\ pstatus = "paused")
          /\ (alreadyPaused /\ pstatus # "paused") => ~alreadyPaused']_vars

\* an invocation that set the flag returns with it cleared: its last read
\* did not report 'paused'
C17_Witness ==
    /\ pc = "chk"
    /\ openSeq
    /\ ~alreadyPaused
    /\ pstatus # "paused"
    /\ frame >= 1

\* C18: with -detect pause and a -movehead target, the photo of a detected
\* pause is preceded by the move to the target and its synchronisation.
C18_MoveBeforeDetectedPhoto ==
    (/\ detect = "pause"
     /\ movehead # NoTarget
     /\ branch = "detect"
     /\ Len(tseq) >= 1) => IsPrefix(<<"G1", "M400">>, tseq)

\* C19: once the phase is 2 it stays 2, the main thread is at no position
\* of the evaluator, and the frame counter, the last-observed layer, the
\* time of the last photo, alreadyPaused, the captures and the printer
\* commands stay as they are; the phase becomes 2 at the phase test of the
\* tick that read 'idle', after that tick's evaluator invocation.
C19_FinishedIsQuiet ==
    [][/\ printerState = 2 =>
            /\ printerState' = 2
            /\ pc' \notin EvaluatorPcs
            /\ UNCHANGED <<frame, zo, timePriorPhoto, alreadyPaused,
                           slots, tseq>>
       /\ (printerState # 2 /\ printerState' = 2) =>
            /\ pc = "chk"
            /\ status = "idle"
            /\ pc' = "sleep"]_vars

\* the assembler runs on the Finished tick with the frames of the print
C19_Witness ==
    /\ printerState = 2
    /\ sigints = 0
    /\ pc = "pp_run"
    /\ frame >= 1
    /\ asmFrames = frame

====
